---- MODULE Spec2Model ----
(***************************************************************************)
(* Rotameric side-chain fitter of qfit_ligand/qfit.py                      *)
(* (QFitRotamericResidue on top of _BaseQFit).                              *)
(*                                                                         *)
(* Weights and occupancies are integers in thousandths (1000 = 1.0), so    *)
(* the pruning limit 0.002 is 2.  Dihedral angles are whole degrees.  A    *)
(* coordinate array of the residue is represented by the tuple of its chi  *)
(* dihedrals, each reported in (-180, 180]: all candidates share the       *)
(* backbone, so two coordinate arrays agree iff their chi tuples agree.    *)
(***************************************************************************)
EXTENDS Integers, Sequences, FiniteSets, TLC

VARIABLES
    pc,               \* position of the program
    options,          \* QFitRotamericResidueOptions
    nchi,             \* residue.nchi
    names,            \* residue.name: the atom names of the residue
    q,                \* residue.q (occupancy of the residue's atoms)
    chi0,             \* chi dihedrals of the residue as loaded
    active,           \* residue.active: the atom names that are active
    rotamers,         \* residue.rotamers: the rotamer list of the library entry
    cd_free,          \* environment: the chi angles free of receptor clashes
    int_bad,          \* environment: chi angles that clash inside the residue
    coor_set,         \* self._coor_set
    occupancies,      \* self._occupancies
    xmap_model,       \* self._xmap_model
    cd,               \* self._cd
    transformer,      \* self._transformer
    sampling_window,  \* local of _sample_sidechain
    start_chi_index,  \* local of _sample_sidechain
    chi_next,         \* the next value of range(start_chi_index, end_chi_index)
    chi_index,        \* local of _sample_sidechain (0: not bound yet)
    iteration,        \* local of _sample_sidechain
    raised,           \* the exception that left the program, or NoError
    structure,        \* the loaded structure the residue belongs to
    target,           \* the position of the fitted residue in the structure
    solver,           \* local of _solve: the solver of the last solve
    sampled_rotamers, \* local of _sample_sidechain: the conformations expanded
                      \* in the chi step
    expanded,         \* the <<candidate, rotamer>> positions expanded in the
                      \* chi step
    struct_a,         \* the atoms of the structure combine is called on
    struct_b,         \* the atoms of the structure given to combine
    combined,         \* the atoms of the structure returned by combine
    reordered,        \* the atoms of the structure returned by reorder
    files,            \* the conformer_{n}.pdb files written by tofile
    mc_residue        \* multiconformer_residue.pdb as written by tofile

\* the variables of Structure.combine, Structure.reorder and tofile
iovars == <<struct_a, struct_b, combined, reordered, files, mc_residue>>

\* the record of what the last chi step expanded
stepvars == <<sampled_rotamers, expanded>>

\* the variables of the fitter other than pc and raised
fitvars == <<options, nchi, names, q, chi0, active, rotamers, cd_free, int_bad,
             coor_set, occupancies, xmap_model, cd, transformer, sampling_window,
             start_chi_index, chi_next, chi_index, iteration, structure, target,
             solver, stepvars>>

vars == <<pc, options, nchi, names, q, chi0, active, rotamers, cd_free, int_bad,
          coor_set, occupancies, xmap_model, cd, transformer, sampling_window,
          start_chi_index, chi_next, chi_index, iteration, raised, structure,
          target, solver, stepvars, iovars>>

----------------------------------------------------------------------------
\* Bounds of the model

MaxNchi == 4
MaxDofs == 3
MaxCard == 2
MaxConf == 3
MaxNbh == 3
MaxStep == 4
MaxRes == 3
MaxAtoms == 2
MaxOut == 27

----------------------------------------------------------------------------
\* Program constants

One == 1000
PruneLimit == 2

NoneVal == -1

----------------------------------------------------------------------------
\* Arithmetic helpers

Abs(x) == IF x < 0 THEN -x ELSE x

Min(a, b) == IF a < b THEN a ELSE b

RECURSIVE Sum(_)
Sum(w) == IF w = <<>> THEN 0 ELSE Head(w) + Sum(Tail(w))

----------------------------------------------------------------------------
\* The rotamer library entry of a residue with n chi dihedrals
\* (residue._rotamers and residue.rotamers; the table itself is
\* structure/rotamers.py).

Backbone == {"N", "CA", "C", "O"}

SideAtom == <<"CG", "CD", "CE", "NZ", "XH", "XI", "XK">>

\* _rotamers['atoms']
RotamerAtoms(n) == Backbone \cup {"CB"} \cup {SideAtom[i] : i \in 1..n}

\* _rotamers['chi-rotate']: for chi j the atoms that move when chi j rotates
ChiRotate(n) == [j \in 1..n |-> {SideAtom[i] : i \in j..n}]

\* the canonical rotamer chi-tuples
Library(n) == << [j \in 1..n |-> 60], [j \in 1..n |-> 180] >>

----------------------------------------------------------------------------
\* The residue: dihedrals and clashes

\* a dihedral is reported in (-180, 180]
Norm(x) == ((x + 179) % 360) - 179

get_chi(coor, i) == Norm(coor[i])

set_chi(coor, i, value) == [coor EXCEPT ![i] = Norm(value)]

\* ChiRotator(residue, chi_index)(angle): rotates the coordinates the rotator
\* was built on by angle about the chi axis
ChiRotator(base, i, angle) == [base EXCEPT ![i] = Norm(base[i] + angle)]

\* self._cd(): some active atom of the residue clashes with the receptor
CdClash(coor, act) ==
    \E j \in 1..Len(coor) : SideAtom[j] \in act /\ coor[j] \notin cd_free

\* self.residue.clashes(): number of clashing pairs of active atoms
Clashes(coor, act) ==
    Cardinality({j \in 1..Len(coor) : SideAtom[j] \in act /\ coor[j] \in int_bad})

----------------------------------------------------------------------------
\* _sample_sidechain: the sampling window and one chi step

\* np.arange(-n, n + s, s)
Arange(n, s) == [i \in 1..((2 * n + 2 * s - 1) \div s) |-> (i - 1) * s - n]

\* the range stops one short: min(start + dofs, nchi)
EndChiIndexShort(start, dofs, n) == Min(start + dofs, n)

EndChiIndex(start, dofs, n) == Min(start + dofs, n + 1)

\* the selection is switched on instead of off
ActiveAtInverted(c) ==
    IF c + 1 \in DOMAIN ChiRotate(nchi)
    THEN ChiRotate(nchi)[c + 1]
    ELSE names

\* the active mask of chi step c: everything, minus chi-rotate[c + 1] if present
ActiveAt(c) ==
    IF c + 1 \in DOMAIN ChiRotate(nchi)
    THEN names \ ChiRotate(nchi)[c + 1]
    ELSE names

\* the rotamer matches the candidate on the chis before chi c
IsThisRotamer(coor, rotamer, c) ==
    \A j \in 1..Min(c - 1, Len(rotamer)) :
        Abs(get_chi(coor, j) - rotamer[j]) <= options.rotamer_neighborhood

\* only the receptor clash is tested
AcceptedReceptorOnly(coor, act) == ~CdClash(coor, act)

\* a sampled conformation is kept
Accepted(coor, act) == ~CdClash(coor, act) /\ Clashes(coor, act) = 0

\* for angle in sampling_window: rotate, test, append
RECURSIVE SampleWindow(_, _, _, _)
SampleWindow(base, c, act, i) ==
    IF i > Len(sampling_window) THEN <<>>
    ELSE LET coor == ChiRotator(base, c, sampling_window[i])
         IN  (IF Accepted(coor, act) THEN <<coor>> ELSE <<>>)
             \o SampleWindow(base, c, act, i + 1)

\* nothing counts as sampled before
UniqueAlways(sampled, coor) == TRUE

\* only the first sampled conformation is compared
UniqueFirstOnly(sampled, coor) == sampled = <<>> \/ sampled[1] # coor

\* np.allclose(rotamer_coor, residue_coor, atol=0.01) against every sampled one
Unique(sampled, coor) == \A k \in 1..Len(sampled) : sampled[k] # coor

\* the two nested loops over self._coor_set and rotamers of one chi step;
\* acc carries new_coor_set and sampled_rotamers
RECURSIVE Expand(_, _, _, _, _, _)
Expand(coors, c, act, i, r, acc) ==
    IF i > Len(coors) THEN acc
    ELSE IF r > Len(rotamers) THEN Expand(coors, c, act, i + 1, 1, acc)
    ELSE LET rotamer == rotamers[r]
             base == set_chi(coors[i], c, rotamer[c])
         IN  IF ~IsThisRotamer(coors[i], rotamer, c)
             THEN Expand(coors, c, act, i, r + 1, acc)
             ELSE IF ~Unique(acc.sampled, base)
             THEN Expand(coors, c, act, i, r + 1, acc)
             ELSE Expand(coors, c, act, i, r + 1,
                         [new |-> acc.new \o SampleWindow(base, c, act, 1),
                          sampled |-> Append(acc.sampled, base),
                          pairs |-> acc.pairs \cup {<<i, r>>}])

\* one chi step: new_coor_set, sampled_rotamers and the positions expanded
ExpandAll(coors, c, act) ==
    Expand(coors, c, act, 1, 1, [new |-> <<>>, sampled |-> <<>>, pairs |-> {}])

NewCoorSet(coors, c, act) == ExpandAll(coors, c, act).new

----------------------------------------------------------------------------
\* _solve and _update_conformers

\* the weight values a solver may return, in thousandths
Weights == {0, 1, 2, 300, 1000}

\* QPSolver: w_i >= 0 and sum w_i <= 1
QPWeights(n) == {w \in [1..n -> Weights] : Sum(w) <= One}

\* MIQPSolver: in addition w_i = 0 or w_i >= threshold, and at most
\* cardinality weights are nonzero; an option that is None puts no constraint
MIQPWeights(n, cardinality, threshold) ==
    {w \in QPWeights(n) :
        /\ threshold # NoneVal => \A i \in 1..n : w[i] = 0 \/ w[i] >= threshold
        /\ cardinality # NoneVal =>
               Cardinality({i \in 1..n : w[i] > 0}) <= cardinality}

\* no solve has run yet
NoSolver == [kind |-> "none", cardinality |-> NoneVal, threshold |-> NoneVal]

\* every solve is a QP
DoQPAlways(cardinality, threshold) == TRUE

\* do_qp = cardinality == threshold == None
DoQP(cardinality, threshold) == cardinality = threshold /\ threshold = NoneVal

\* the solver _solve(cardinality, threshold) constructs and how it is called
SolverOf(cardinality, threshold) ==
    IF DoQP(cardinality, threshold)
    THEN [kind |-> "QPSolver", cardinality |-> NoneVal, threshold |-> NoneVal]
    ELSE [kind |-> "MIQPSolver", cardinality |-> options.cardinality,
          threshold |-> options.threshold]

\* solver.weights of _solve(cardinality, threshold) on n models
SolverWeights(n, cardinality, threshold) ==
    IF DoQP(cardinality, threshold)
    THEN QPWeights(n)
    ELSE MIQPWeights(n, options.cardinality, options.threshold)

\* if q > 0.002
KeepStrict(w) == w > PruneLimit

\* if q >= 0
KeepAll(w) == w >= 0

\* if q >= 0.002
Keep(w) == w >= PruneLimit

\* the loop of _update_conformers over zip(self._occupancies, self._coor_set)
RECURSIVE Kept(_, _, _)
Kept(occ, coors, i) ==
    IF i > Min(Len(occ), Len(coors)) THEN <<>>
    ELSE (IF Keep(occ[i]) THEN <<i>> ELSE <<>>) \o Kept(occ, coors, i + 1)

----------------------------------------------------------------------------
\* The loaded structure.  It is a sequence of residues in file order, sorted
\* by residue number inside each chain; a residue stands for all its atoms,
\* which share chain, resi and icode.  gap is the distance, in tenths of an
\* Angstrom, from the C atom of the residue before it in its chain to its own
\* N atom.

\* Structure.build_hierarchy: a chain is the selection chain == chainid
ChainOf(struct, chainid) ==
    {i \in 1..Len(struct) : struct[i].chain = chainid}

\* _Conformer.build_residues: the residues of the chain, ordered by resi
ConformerResidues(struct, chainid) ==
    SelectSeq([i \in 1..Len(struct) |-> i],
              LAMBDA i : i \in ChainOf(struct, chainid))

\* _Conformer.build_segments: res continues the segment of prev
Bonded(struct, prev, res) ==
    /\ struct[prev].rtype = struct[res].rtype
    /\ (IF struct[res].rtype \in {"rotamer-residue", "aa-residue"}
        THEN struct[res].gap ELSE 100) < 15

\* _Conformer.build_segments: the runs of bonded residues, as lists of residues
RECURSIVE BuildSegments(_, _, _, _)
BuildSegments(struct, residues, i, segment) ==
    IF i > Len(residues) THEN <<segment>>
    ELSE IF segment = <<>> \/ Bonded(struct, segment[Len(segment)], residues[i])
    THEN BuildSegments(struct, residues, i + 1, Append(segment, residues[i]))
    ELSE <<segment>> \o BuildSegments(struct, residues, i + 1, <<residues[i]>>)

\* _Conformer.segments: only the runs of more than one residue are segments
Segments(struct, chainid) ==
    SelectSeq(BuildSegments(struct, ConformerResidues(struct, chainid), 1, <<>>),
              LAMBDA seg : Len(seg) > 1)

ResidueId(res) == <<res.resi, res.icode>>

\* _Segment.find: the position of the residue in the segment, 0 for ValueError
Find(struct, seg, id) ==
    IF \E n \in 1..Len(seg) : ResidueId(struct[seg[n]]) = id
    THEN CHOOSE n \in 1..Len(seg) :
             /\ ResidueId(struct[seg[n]]) = id
             /\ \A m \in 1..(n - 1) : ResidueId(struct[seg[m]]) # id
    ELSE 0

\* _setup_clash_detector: the first segment that holds the residue, 0 if none
FoundSegment(struct, t) ==
    LET segs == Segments(struct, struct[t].chain)
        hits == {k \in 1..Len(segs) : Find(struct, segs[k], ResidueId(struct[t])) > 0}
    IN  IF hits = {} THEN 0 ELSE CHOOSE k \in hits : \A m \in hits : k <= m

\* an exclude list that leaves out the bond to the next residue
ExcludePrevOnly(struct, t) ==
    LET seg == Segments(struct, struct[t].chain)[FoundSegment(struct, t)]
        index == Find(struct, seg, ResidueId(struct[t]))
    IN  IF index > 1 /\ struct[seg[index]].gap < 20
        THEN << <<t, "N", seg[index - 1], "C">> >> ELSE <<>>

\* _setup_clash_detector: the exclude list, pairs <<residue, atom, residue, atom>>
Exclude(struct, t) ==
    LET seg == Segments(struct, struct[t].chain)[FoundSegment(struct, t)]
        index == Find(struct, seg, ResidueId(struct[t]))
    IN  (IF index > 1 /\ struct[seg[index]].gap < 20
         THEN << <<t, "N", seg[index - 1], "C">> >> ELSE <<>>)
        \o
        (IF index < Len(seg) /\ struct[seg[index + 1]].gap < 20
         THEN << <<t, "C", seg[index + 1], "N">> >> ELSE <<>>)

\* _setup_clash_detector: the receptor, extracted from conformer.parent
Receptor(struct, t) ==
    IF struct[t].icode # ""
    THEN {i \in ChainOf(struct, struct[t].chain) :
              ~(struct[i].resi = struct[t].resi /\ struct[i].icode = struct[t].icode)}
    ELSE {i \in ChainOf(struct, struct[t].chain) : struct[i].resi # struct[t].resi}

----------------------------------------------------------------------------
\* Structure.combine and Structure.reorder.  A structure is the sequence of
\* its atom records [chain, resi, icode, resn, name, altloc, coor, q]; a
\* selection is a sequence of positions in it, counted from 0.

ascii_uppercase ==
    << "A", "B", "C", "D", "E", "F", "G", "H", "I", "J", "K", "L", "M", "N",
       "O", "P", "Q", "R", "S", "T", "U", "V", "W", "X", "Y", "Z" >>

\* the orders np.unique sorts chain ids, residue names and altlocs into
ChainOrder == <<"A", "B">>
ResnOrder == <<"ALA", "LYS">>
AltlocOrder == <<"">> \o ascii_uppercase

\* self.select(attr, value): the positions of sel whose attribute is value
Select(data, sel, attr, value) ==
    SelectSeq(sel, LAMBDA i : data[i + 1][attr] = value)

\* the whole structure as a selection
Everything(data) == [k \in 1..Len(data) |-> k - 1]

\* concatenation of a sequence of sequences
RECURSIVE Concat(_)
Concat(seqs) ==
    IF seqs = <<>> THEN <<>>
    ELSE IF Len(seqs) = 1 THEN seqs[1]
    ELSE LET half == Len(seqs) \div 2
         IN  Concat(SubSeq(seqs, 1, half)) \o Concat(SubSeq(seqs, half + 1, Len(seqs)))

\* the members of seq in the order of their first occurrence
FirstOccurrences(seq) ==
    LET first == SelectSeq([k \in 1..Len(seq) |-> k],
                           LAMBDA k : \A j \in 1..(k - 1) : seq[j] # seq[k])
    IN  [k \in 1..Len(first) |-> seq[first[k]]]

\* the & of two non-negative integers
RECURSIVE BitAnd(_, _)
BitAnd(a, b) ==
    IF a = 0 \/ b = 0 THEN 0
    ELSE (a % 2) * (b % 2) + 2 * BitAnd(a \div 2, b \div 2)

\* selection &= other on two index arrays: element-wise, other broadcast
\* when it has one element, ValueError when the shapes do not fit
AndInPlace(sel, other) ==
    IF Len(other) = Len(sel)
    THEN [ok |-> TRUE, sel |-> [k \in 1..Len(sel) |-> BitAnd(sel[k], other[k])]]
    ELSE IF Len(other) = 1
    THEN [ok |-> TRUE, sel |-> [k \in 1..Len(sel) |-> BitAnd(sel[k], other[1])]]
    ELSE [ok |-> FALSE, sel |-> <<>>]

\* how often v occurs in seq
Count(seq, v) == Cardinality({k \in 1..Len(seq) : seq[k] = v})

\* np.intersect1d(a, b, assume_unique=True) over the positions below n: the
\* two arrays are concatenated and sorted, and every element that equals its
\* successor is returned
Intersect1d(a, b, n) ==
    Concat([v \in 1..n |->
               [k \in 1..(Count(a, v - 1) + Count(b, v - 1) - 1) |-> v - 1]])

\* Structure.build_hierarchy: the chains, in the order of np.unique
Chains(data) ==
    LET ids == SelectSeq(ChainOrder,
                         LAMBDA c : \E k \in 1..Len(data) : data[k].chain = c)
    IN  [k \in 1..Len(ids) |-> Select(data, Everything(data), "chain", ids[k])]

\* _Chain.build_hierarchy: the ids of the residue groups, in the order of
\* their first atom among the atoms of the chain sorted by resi
ResidueGroupIds(data, chain) ==
    LET resis == {data[chain[k] + 1].resi : k \in 1..Len(chain)}
        top == CHOOSE m \in resis : \A r \in resis : r <= m
        sorted == Concat([r \in 1..top |-> Select(data, chain, "resi", r)])
    IN  FirstOccurrences([k \in 1..Len(sorted) |->
                             <<data[sorted[k] + 1].resi, data[sorted[k] + 1].icode>>])

\* _Chain.build_hierarchy: the selection of the residue group id
ResidueGroup(data, chain, id) ==
    LET selection == Select(data, chain, "resi", id[1])
    IN  IF id[2] # ""
        THEN AndInPlace(selection, Select(data, chain, "icode", id[2]))
        ELSE [ok |-> TRUE, sel |-> selection]

\* _ResidueGroup.build_hierarchy: the ids of the atom groups, as np.unique
\* sorts the strings resn_altloc
AtomGroupIds(data, rg) ==
    LET ids == Concat([r \in 1..Len(ResnOrder) |->
                          [a \in 1..Len(AltlocOrder) |->
                              <<ResnOrder[r], AltlocOrder[a]>>]])
    IN  SelectSeq(ids, LAMBDA id : \E k \in 1..Len(rg) :
                                       /\ data[rg[k] + 1].resn = id[1]
                                       /\ data[rg[k] + 1].altloc = id[2])

\* _ResidueGroup.build_hierarchy: the selection of the atom group id
AtomGroup(data, rg, id) ==
    LET selection == Select(data, rg, "resn", id[1])
    IN  IF id[2] # ""
        THEN Intersect1d(selection, Select(data, rg, "altloc", id[2]), Len(data))
        ELSE selection

\* the selections of the atom groups of one residue group
AtomGroups(data, rg) ==
    LET ids == AtomGroupIds(data, rg)
    IN  Concat([k \in 1..Len(ids) |-> AtomGroup(data, rg, ids[k])])

\* Structure.combine: every attribute array is the concatenation of the two
Combine(a, b) == a \o b

\* Structure.reorder: the atoms in the order of the atom groups of the
\* residue groups of the chains; ok is FALSE when building a residue group
\* raises ValueError
Reorder(data) ==
    LET chains == Chains(data)
        groups == Concat([c \in 1..Len(chains) |->
                     LET ids == ResidueGroupIds(data, chains[c])
                     IN  [g \in 1..Len(ids) |->
                             ResidueGroup(data, chains[c], ids[g])]])
        ordering == Concat([g \in 1..Len(groups) |-> AtomGroups(data, groups[g].sel)])
    IN  IF \E g \in 1..Len(groups) : ~groups[g].ok
        THEN [ok |-> FALSE, data |-> <<>>]
        ELSE [ok |-> TRUE, data |-> [k \in 1..Len(ordering) |-> data[ordering[k] + 1]]]

----------------------------------------------------------------------------
\* Exceptions

NoError == [type |-> "none", msg |-> ""]

\* raise RuntimeError(msg) of QFitRotamericResidue.__init__
IncompleteError ==
    [type |-> "RuntimeError",
     msg |-> "Residue is incomplete. Build full sidechain for qfitting"]

\* raise RuntimeError(msg) of _sample_sidechain
NoConformersError ==
    [type |-> "RuntimeError",
     msg |-> "No conformers could be generated. Check for initial clashes."]

\* index is read in _setup_clash_detector without having been bound
UnboundIndexError ==
    [type |-> "UnboundLocalError",
     msg |-> "local variable 'index' referenced before assignment"]

\* selection &= ... of _Chain.build_hierarchy on arrays of different shapes
BroadcastError ==
    [type |-> "ValueError", msg |-> "operands could not be broadcast together"]

\* conformers[0] of tofile on an empty list
NoFirstConformerError ==
    [type |-> "IndexError", msg |-> "list index out of range"]

NoCd == [built |-> FALSE, receptor |-> {}, exclude |-> <<>>]

----------------------------------------------------------------------------
\* QFitRotamericResidue.__init__

\* the residue's atoms are looked up in the library instead
IncompleteReversed(atoms, n) == \E atom \in atoms : atom \notin RotamerAtoms(n)

\* for atom in residue._rotamers['atoms']: if atom not in atoms
Incomplete(atoms, n) == \E atom \in RotamerAtoms(n) : atom \notin atoms

Construct ==
    /\ pc = "new"
    /\ IF Incomplete(names, nchi)
       THEN /\ raised' = IncompleteError
            /\ pc' = "error"
            /\ UNCHANGED <<q, coor_set, occupancies, xmap_model, cd, transformer>>
       ELSE \* _BaseQFit.__init__
            /\ q' = One
            /\ coor_set' = <<chi0>>
            /\ occupancies' = <<One>>
            /\ xmap_model' = TRUE
            \* _setup_clash_detector, _update_transformer
            /\ IF FoundSegment(structure, target) = 0
               THEN /\ raised' = UnboundIndexError
                    /\ pc' = "error"
                    /\ UNCHANGED <<cd, transformer>>
               ELSE /\ cd' = [built |-> TRUE,
                              receptor |-> Receptor(structure, target),
                              exclude |-> Exclude(structure, target)]
                    /\ transformer' = TRUE
                    /\ pc' = "constructed"
                    /\ UNCHANGED raised
    /\ UNCHANGED <<options, nchi, names, chi0, active, rotamers, cd_free, int_bad,
                   sampling_window, start_chi_index, chi_next, chi_index,
                   iteration, structure, target, iovars, solver,
                   stepvars>>

----------------------------------------------------------------------------
\* QFitRotamericResidue.__call__ and _sample_sidechain

\* __call__ up to the first pass of the while loop
Call ==
    /\ pc = "constructed"
    /\ IF nchi >= 1
       THEN /\ start_chi_index' = 1
            /\ sampling_window' = Arange(options.rotamer_neighborhood,
                                         options.dofs_stepsize)
            /\ rotamers' = Append(rotamers, [i \in 1..nchi |-> get_chi(chi0, i)])
            /\ iteration' = 0
            /\ chi_next' = 1
            /\ pc' = "sample"
       ELSE /\ pc' = "done"
            /\ UNCHANGED <<start_chi_index, sampling_window, rotamers, iteration,
                           chi_next>>
    /\ UNCHANGED <<options, nchi, names, q, chi0, active, cd_free, int_bad, coor_set,
                   occupancies, xmap_model, cd, transformer, chi_index, raised,
                   structure, target, iovars, solver,
                   stepvars>>

\* one pass of: for chi_index in range(start_chi_index, end_chi_index)
SampleChi ==
    /\ pc = "sample"
    /\ chi_next < EndChiIndex(start_chi_index, options.dofs_per_iteration, nchi)
    /\ chi_index' = chi_next
    /\ chi_next' = chi_next + 1
    /\ active' = ActiveAt(chi_next)
    /\ coor_set' = NewCoorSet(coor_set, chi_next, ActiveAt(chi_next))
    /\ sampled_rotamers' = ExpandAll(coor_set, chi_next, ActiveAt(chi_next)).sampled
    /\ expanded' = ExpandAll(coor_set, chi_next, ActiveAt(chi_next)).pairs
    /\ Len(coor_set') <= MaxConf
    /\ UNCHANGED <<pc, options, nchi, names, q, chi0, rotamers, cd_free, int_bad,
                   occupancies, xmap_model, cd, transformer, sampling_window,
                   start_chi_index, iteration, raised, structure, target, iovars, solver>>

\* a single conformer counts as none
FewerThanTwo(coors) == Len(coors) < 2

\* not self._coor_set
NoConformersLeft(coors) == Len(coors) = 0

\* if not self._coor_set: raise RuntimeError(msg)
NoConformers ==
    /\ pc = "sample"
    /\ chi_next >= EndChiIndex(start_chi_index, options.dofs_per_iteration, nchi)
    /\ NoConformersLeft(coor_set)
    /\ raised' = NoConformersError
    /\ pc' = "error"
    /\ UNCHANGED <<options, nchi, names, q, chi0, active, rotamers, cd_free, int_bad,
                   coor_set, occupancies, xmap_model, cd, transformer,
                   sampling_window, start_chi_index, chi_next, chi_index,
                   iteration, structure, target, iovars, solver,
                   stepvars>>

\* _solve up to self._occupancies = solver.weights
Solve(at, cardinality, threshold, then) ==
    /\ pc = at
    /\ solver' = SolverOf(cardinality, threshold)
    /\ \E w \in SolverWeights(Len(coor_set), cardinality, threshold) :
           occupancies' = w
    /\ pc' = then
    /\ UNCHANGED <<options, nchi, names, q, chi0, active, rotamers, cd_free, int_bad,
                   coor_set, xmap_model, cd, transformer, sampling_window,
                   start_chi_index, chi_next, chi_index, iteration, raised,
                   structure, target, iovars, stepvars>>

\* self._solve() after the chi steps of the iteration
SolveQP ==
    /\ chi_next >= EndChiIndex(start_chi_index, options.dofs_per_iteration, nchi)
    /\ ~NoConformersLeft(coor_set)
    /\ Solve("sample", NoneVal, NoneVal, "qp_update")

\* the first self._solve(cardinality=..., threshold=...)
SolveMIQP1 == Solve("miqp1", options.cardinality, options.threshold, "miqp1_update")

\* the second self._solve(cardinality=..., threshold=...)
SolveMIQP2 == Solve("miqp2", options.cardinality, options.threshold, "miqp2_update")

AfterUpdate(at) ==
    CASE at = "qp_update" -> "miqp1"
      [] at = "miqp1_update" -> "miqp2"
      [] at = "miqp2_update" -> "check_done"

\* only the coordinate list is pruned
UpdateConformersCoorOnly ==
    /\ pc \in {"qp_update", "miqp1_update", "miqp2_update"}
    /\ LET kept == Kept(occupancies, coor_set, 1)
       IN  coor_set' = [j \in 1..Len(kept) |-> coor_set[kept[j]]]
    /\ pc' = AfterUpdate(pc)
    /\ UNCHANGED <<options, nchi, names, q, chi0, active, rotamers, cd_free, int_bad,
                   occupancies, xmap_model, cd, transformer, sampling_window,
                   start_chi_index, chi_next, chi_index, iteration, raised,
                   structure, target, iovars, solver,
                   stepvars>>

\* self._update_conformers() at the end of _solve
UpdateConformers ==
    /\ pc \in {"qp_update", "miqp1_update", "miqp2_update"}
    /\ LET kept == Kept(occupancies, coor_set, 1)
       IN  /\ coor_set' = [j \in 1..Len(kept) |-> coor_set[kept[j]]]
           /\ occupancies' = [j \in 1..Len(kept) |-> occupancies[kept[j]]]
    /\ pc' = AfterUpdate(pc)
    /\ UNCHANGED <<options, nchi, names, q, chi0, active, rotamers, cd_free, int_bad,
                   xmap_model, cd, transformer, sampling_window, start_chi_index,
                   chi_next, chi_index, iteration, raised, structure, target, iovars, solver,
                   stepvars>>

\* if chi_index == self.residue.nchi: return
Return ==
    /\ pc = "check_done"
    /\ chi_index = nchi
    /\ pc' = "done"
    /\ UNCHANGED <<options, nchi, names, q, chi0, active, rotamers, cd_free, int_bad,
                   coor_set, occupancies, xmap_model, cd, transformer,
                   sampling_window, start_chi_index, chi_next, chi_index,
                   iteration, raised, structure, target, iovars, solver,
                   stepvars>>

\* iteration += 1; start_chi_index += 1; and the next pass of the while loop
NextIteration ==
    /\ pc = "check_done"
    /\ chi_index # nchi
    /\ iteration' = iteration + 1
    /\ start_chi_index' = start_chi_index + 1
    /\ chi_next' = start_chi_index + 1
    /\ pc' = "sample"
    /\ UNCHANGED <<options, nchi, names, q, chi0, active, rotamers, cd_free, int_bad,
                   coor_set, occupancies, xmap_model, cd, transformer,
                   sampling_window, chi_index, raised, structure, target, iovars, solver,
                   stepvars>>

----------------------------------------------------------------------------
\* QFitRotamericResidue.tofile

\* the atom names of the residue in file order
AtomOrder == <<"N", "CA", "C", "O", "CB">> \o SideAtom \o <<"OXT">>

\* self.conformer.copy() with conformer.coor = coor and conformer.q = w: the
\* atoms of the residue, every one at its place in the conformation coor
Conformer(coor, w) ==
    LET atoms == SelectSeq(AtomOrder, LAMBDA a : a \in names)
    IN  [k \in 1..Len(atoms) |->
            [chain |-> structure[target].chain, resi |-> structure[target].resi,
             icode |-> structure[target].icode, resn |-> "LYS",
             name |-> atoms[k], altloc |-> "", coor |-> coor, q |-> w]]

\* get_conformers: one conformer per pair of zip(_occupancies, _coor_set)
get_conformers ==
    [n \in 1..Min(Len(occupancies), Len(coor_set)) |->
        Conformer(coor_set[n], occupancies[n])]

\* structure.altloc = altloc
SetAltloc(data, altloc) == [k \in 1..Len(data) |-> [data[k] EXCEPT !.altloc = altloc]]

\* the loop over zip(ascii_uppercase[1:], conformers[1:]), from conformer n on
RECURSIVE CombineConformers(_, _, _)
CombineConformers(conformers, n, mc) ==
    IF n > Min(Len(conformers), Len(ascii_uppercase)) THEN mc
    ELSE CombineConformers(conformers, n + 1,
             Combine(mc, SetAltloc(conformers[n], ascii_uppercase[n])))

\* tofile: the conformer files, then the multiconformer residue
ToFile ==
    /\ pc = "done"
    /\ files' = get_conformers
    /\ IF Len(get_conformers) = 0
       THEN /\ raised' = NoFirstConformerError
            /\ pc' = "error"
            /\ UNCHANGED mc_residue
       ELSE LET first == SetAltloc(get_conformers[1], "A")
                mc == Reorder(CombineConformers(get_conformers, 2, first))
            IN  IF mc.ok
                THEN /\ mc_residue' = mc.data
                     /\ pc' = "written"
                     /\ UNCHANGED raised
                ELSE /\ raised' = BroadcastError
                     /\ pc' = "error"
                     /\ UNCHANGED mc_residue
    /\ UNCHANGED <<fitvars, struct_a, struct_b, combined, reordered>>

----------------------------------------------------------------------------
\* Structure.combine followed by Structure.reorder

\* A.combine(B)
CombineStructures ==
    /\ pc = "loaded"
    /\ combined' = Combine(struct_a, struct_b)
    /\ pc' = "combined"
    /\ UNCHANGED <<fitvars, raised, struct_a, struct_b, reordered, files, mc_residue>>

\* .reorder() of the combined structure
ReorderStructure ==
    /\ pc = "combined"
    /\ IF Reorder(combined).ok
       THEN /\ reordered' = Reorder(combined).data
            /\ pc' = "reordered"
            /\ UNCHANGED raised
       ELSE /\ raised' = BroadcastError
            /\ pc' = "error"
            /\ UNCHANGED reordered
    /\ UNCHANGED <<fitvars, struct_a, struct_b, combined, files, mc_residue>>

Next ==
    \/ Construct
    \/ Call
    \/ SampleChi
    \/ NoConformers
    \/ SolveQP
    \/ SolveMIQP1
    \/ SolveMIQP2
    \/ UpdateConformers
    \/ Return
    \/ NextIteration
    \/ ToFile

----------------------------------------------------------------------------
\* Initial states: the inputs of one fit

Res(chain, resi, icode, gap) ==
    [chain |-> chain, resi |-> resi, icode |-> icode,
     rtype |-> "rotamer-residue", gap |-> gap]

\* every residue a structure may hold, in file order
AllResidues(gap) ==
    << Res("A", 1, "", gap), Res("A", 1, "A", gap), Res("A", 2, "", gap),
       Res("A", 2, "A", gap), Res("B", 1, "", gap), Res("B", 1, "A", gap),
       Res("B", 2, "", gap), Res("B", 2, "A", gap) >>

\* the structure that holds the residues of AllResidues at the positions in S
StructureOn(S, gap) ==
    SelectSeq(AllResidues(gap), LAMBDA r : \E i \in S : AllResidues(gap)[i] = r)

\* a tripeptide in chain A next to a residue of chain B
Tripeptide == StructureOn({1, 3, 4, 5}, 13)

Options(Dofs, CardThr, Nbh, Steps, Excl) ==
    {[dofs_per_iteration |-> d, dofs_stepsize |-> s, cardinality |-> ct[1],
      threshold |-> ct[2], rotamer_neighborhood |-> n, exclude_atoms |-> x] :
        d \in Dofs, ct \in CardThr, n \in Nbh, s \in Steps, x \in Excl}

\* the atoms of a residue: every library atom, a further atom besides, or
\* all but the last side-chain atom
NamesOf(n, kind) ==
    CASE kind = "complete" -> RotamerAtoms(n)
      [] kind = "extra" -> RotamerAtoms(n) \cup {"OXT"}
      [] kind = "lacking" -> RotamerAtoms(n) \ {IF n >= 1 THEN SideAtom[n] ELSE "CB"}

\* nothing has been combined or written
NoIO ==
    /\ struct_a = <<>>
    /\ struct_b = <<>>
    /\ combined = <<>>
    /\ reordered = <<>>
    /\ files = <<>>
    /\ mc_residue = <<>>

InitWith(Nchis, Opts, Kinds, Structs, Envs, Starts) ==
    /\ NoIO
    /\ solver = NoSolver
    /\ sampled_rotamers = <<>>
    /\ expanded = {}
    /\ pc = "new"
    /\ nchi \in Nchis
    /\ options \in Opts
    /\ names \in {NamesOf(nchi, kind) : kind \in Kinds}
    /\ q \in {500, One}
    /\ chi0 \in {[j \in 1..nchi |-> a] : a \in Starts}
    /\ active = names
    /\ rotamers = Library(nchi)
    /\ \E env \in Envs : cd_free = env[1] /\ int_bad = env[2]
    /\ \E st \in Structs : structure = st[1] /\ target = st[2]
    /\ coor_set = <<>>
    /\ occupancies = <<>>
    /\ xmap_model = FALSE
    /\ cd = NoCd
    /\ transformer = FALSE
    /\ sampling_window = <<>>
    /\ start_chi_index = 0
    /\ chi_next = 0
    /\ chi_index = 0
    /\ iteration = 0
    /\ raised = NoError

\* cardinality and threshold: both None, both set, or one of them None
CardThr ==
    {<<NoneVal, NoneVal>>, <<NoneVal, 300>>, <<MaxCard, NoneVal>>}
        \cup ((1..MaxCard) \X {1, 300})

\* the clash environments: <<the angles free of receptor clashes (every other
\* angle clashes), the angles that clash inside the residue>>
Envs ==
    {<<{}, {}>>, <<{180}, {}>>, <<{179, 180}, {}>>, <<{179, 180}, {179}>>,
     <<{-179, 180}, {}>>}

\* fits of complete residues inside a tripeptide, every nchi and
\* dofs_per_iteration
InitFit ==
    InitWith(0..MaxNchi,
             Options(1..MaxDofs, {<<2, 300>>}, {1}, {1}, {{}}),
             {"complete", "extra"}, {<<Tripeptide, 2>>}, Envs, {179, 180})

\* fits of complete residues inside a tripeptide, every cardinality and
\* threshold
InitSolve ==
    InitWith(1..2,
             Options({2}, CardThr, {1}, {1}, {{}}),
             {"complete", "extra"}, {<<Tripeptide, 2>>}, Envs, {180})

\* residues that lack an atom, residues outside every segment, excluded atoms
InitOdd ==
    InitWith(1..2,
             Options({2}, {<<2, 300>>}, {1}, {1, 2}, {{}, Backbone, {"CB", "CG"}}),
             {"complete", "extra", "lacking"},
             {<<Tripeptide, 2>>, <<StructureOn({1, 3, 5}, 30), 2>>},
             {<<{180}, {}>>}, {180})

\* every rotamer_neighborhood and dofs_stepsize
InitWindow ==
    InitWith({2},
             Options({1}, {<<2, 300>>}, 1..MaxNbh, 1..MaxStep, {{}}),
             {"complete"}, {<<Tripeptide, 2>>},
             {<<{180}, {}>>}, {180})

\* every structure of at most n residues, with every residue of it as target
StructuresUpTo(n) ==
    UNION {{<<StructureOn(S, 13), t>> : t \in 1..Cardinality(S)} :
              S \in {T \in SUBSET (1..8) : Cardinality(T) \in 1..n}}

\* every structure of at most MaxRes residues
InitReceptor ==
    InitWith({2},
             Options({1}, {<<2, 300>>}, {1}, {1}, {{}}),
             {"complete"}, StructuresUpTo(MaxRes),
             {<<{180}, {}>>}, {180})

Init == InitFit \/ InitSolve \/ InitOdd \/ InitWindow \/ InitReceptor

Spec == Init /\ [][Next]_vars

----------------------------------------------------------------------------
\* tofile after fits that return up to MaxOut conformers

\* a structure whose fitted residue carries an insertion code
Inserted == StructureOn({2, 3}, 13)

\* the fitter after a normal return with k conformers
InitToFile ==
    /\ NoIO
    /\ pc = "done"
    /\ nchi = 1
    /\ options = [dofs_per_iteration |-> 1, dofs_stepsize |-> 8,
                  cardinality |-> MaxOut, threshold |-> 2,
                  rotamer_neighborhood |-> 40, exclude_atoms |-> {}]
    /\ names \in {NamesOf(nchi, kind) : kind \in {"complete", "extra"}}
    /\ q = One
    /\ chi0 = <<180>>
    /\ active = names
    /\ rotamers = Append(Library(nchi), chi0)
    /\ cd_free = {a \in -179..180 : TRUE}
    /\ int_bad = {}
    /\ \E st \in {<<Tripeptide, 2>>, <<Inserted, 1>>} :
           /\ structure = st[1]
           /\ target = st[2]
           /\ cd = [built |-> TRUE, receptor |-> Receptor(st[1], st[2]),
                    exclude |-> Exclude(st[1], st[2])]
    /\ \E k \in 1..MaxOut, w \in {2, 30} :
           /\ coor_set = [n \in 1..k |-> <<n>>]
           /\ occupancies = [n \in 1..k |-> w]
    /\ xmap_model = TRUE
    /\ transformer = TRUE
    /\ sampling_window = Arange(options.rotamer_neighborhood, options.dofs_stepsize)
    /\ start_chi_index = 1
    /\ chi_next = 2
    /\ chi_index = 1
    /\ iteration = 0
    /\ raised = NoError
    /\ solver = [kind |-> "MIQPSolver", cardinality |-> MaxOut, threshold |-> 2]
    /\ sampled_rotamers = <<>>
    /\ expanded = {}

SpecToFile == InitToFile /\ [][ToFile]_vars

----------------------------------------------------------------------------
\* combine and reorder on structures of up to MaxAtoms atoms each

Atom(chain, resi, icode, name, altloc, coor) ==
    [chain |-> chain, resi |-> resi, icode |-> icode, resn |-> "ALA",
     name |-> name, altloc |-> altloc, coor |-> coor, q |-> One]

\* the atoms a loaded structure may hold
AtomPool ==
    { Atom("A", 1, "", "N", "", <<0>>), Atom("A", 1, "", "CB", "A", <<1>>),
      Atom("A", 1, "", "CB", "B", <<2>>), Atom("A", 1, "A", "N", "", <<3>>),
      Atom("A", 2, "", "N", "", <<4>>), Atom("B", 1, "", "N", "", <<5>>) }

\* every structure of 1 to n atoms
StructuresOf(n) == UNION {[1..m -> AtomPool] : m \in 1..n}

InitStructure ==
    /\ pc = "loaded"
    /\ struct_a \in StructuresOf(MaxAtoms)
    /\ struct_b \in StructuresOf(MaxAtoms)
    /\ combined = <<>>
    /\ reordered = <<>>
    /\ files = <<>>
    /\ mc_residue = <<>>
    /\ nchi = 0
    /\ options = [dofs_per_iteration |-> 2, dofs_stepsize |-> 8,
                  cardinality |-> 2, threshold |-> 300,
                  rotamer_neighborhood |-> 40, exclude_atoms |-> {}]
    /\ names = {}
    /\ q = One
    /\ chi0 = <<>>
    /\ active = {}
    /\ rotamers = <<>>
    /\ cd_free = {}
    /\ int_bad = {}
    /\ structure = <<>>
    /\ target = 0
    /\ coor_set = <<>>
    /\ occupancies = <<>>
    /\ xmap_model = FALSE
    /\ cd = NoCd
    /\ transformer = FALSE
    /\ sampling_window = <<>>
    /\ start_chi_index = 0
    /\ chi_next = 0
    /\ chi_index = 0
    /\ iteration = 0
    /\ raised = NoError
    /\ solver = NoSolver
    /\ sampled_rotamers = <<>>
    /\ expanded = {}

NextStructure == CombineStructures \/ ReorderStructure

SpecStructure == InitStructure /\ [][NextStructure]_vars

----------------------------------------------------------------------------
\* Properties

\* the positions of the program inside _solve and right after it
InSolves ==
    pc \in {"qp_update", "miqp1", "miqp1_update", "miqp2", "miqp2_update",
            "check_done"}

\* C1: for nchi >= 1 and dofs_per_iteration >= 1 the sampler, unless it
\* raises, runs exactly max(1, nchi - dofs_per_iteration + 1) outer
\* iterations: in iteration k the first chi index is k + 1, the chi indices
\* are sampled in order up to min(start + dofs_per_iteration, nchi + 1) - 1,
\* and it returns in the first iteration whose last chi index is nchi.
C1_IterationCount ==
    LET d == options.dofs_per_iteration
        total == IF nchi - d + 1 > 1 THEN nchi - d + 1 ELSE 1
        last == (IF start_chi_index + d < nchi + 1
                 THEN start_chi_index + d ELSE nchi + 1) - 1
    IN  (nchi >= 1 /\ (pc = "sample" \/ InSolves \/ pc = "done")) =>
            /\ start_chi_index = iteration + 1
            /\ iteration + 1 <= total
            /\ pc = "sample" =>
                   /\ chi_next \in start_chi_index..(last + 1)
                   /\ chi_next > start_chi_index => chi_index = chi_next - 1
            /\ (InSolves \/ pc = "done") => chi_index = last
            /\ pc = "done" => (iteration + 1 = total /\ chi_index = nchi)

\* nchi = 4 with dofs_per_iteration = 2 has returned after 3 iterations
C1_Witness ==
    /\ pc = "done"
    /\ nchi = 4
    /\ options.dofs_per_iteration = 2
    /\ iteration = 2
    /\ start_chi_index = 3
    /\ chi_index = 4

\* the chi steps of the outer iteration are over
ExpansionOver ==
    /\ pc = "sample"
    /\ chi_next >= (IF start_chi_index + options.dofs_per_iteration < nchi + 1
                    THEN start_chi_index + options.dofs_per_iteration
                    ELSE nchi + 1)

\* C2 as stated: an empty candidate list after the chi expansion raises the
\* 'no conformers' error, and that error carries the iteration index.
C2_ErrorCarriesIteration ==
    raised.msg = "No conformers could be generated. Check for initial clashes."
        => ("iteration" \in DOMAIN raised)

\* C2, amended: an empty candidate list after the chi expansion of an outer
\* iteration raises the 'no conformers' error before any solve of that
\* iteration and no later iteration runs; the error is a RuntimeError with a
\* fixed message and no iteration index; a non-empty list does not raise it
\* in that iteration.
C2_NoConformersRaised ==
    /\ [][ExpansionOver /\ coor_set = <<>> =>
              /\ pc' = "error"
              /\ raised' =
                     [type |-> "RuntimeError",
                      msg |-> "No conformers could be generated. Check for initial clashes."]
              /\ occupancies' = occupancies
              /\ coor_set' = <<>>
              /\ iteration' = iteration]_vars
    /\ [][ExpansionOver /\ coor_set # <<>> =>
              (pc' = "qp_update" /\ raised' = NoError)]_vars
    /\ [][pc = "error" => FALSE]_vars
    /\ [][raised = NoError /\ raised'.type = "RuntimeError" /\ pc # "new" =>
              (ExpansionOver /\ coor_set = <<>>)]_vars

\* the error was raised in the second outer iteration
C2_Witness ==
    /\ pc = "error"
    /\ raised = NoConformersError
    /\ iteration = 1
    /\ coor_set = <<>>

\* C3: constructing the fitter for a residue that lacks an atom of its
\* rotamer-library atom list raises before any fitter state exists: the
\* occupancy is not modified, no model grid, clash detector or transformer is
\* set up and nothing ever runs afterwards; a residue with every library atom
\* does not raise this error.
C3_IncompleteRaisesFirst ==
    /\ [](raised = IncompleteError =>
              /\ pc = "error"
              /\ ~(RotamerAtoms(nchi) \subseteq names)
              /\ coor_set = <<>> /\ occupancies = <<>>
              /\ ~xmap_model /\ cd = NoCd /\ ~transformer
              /\ sampling_window = <<>> /\ chi_index = 0)
    /\ [][pc = "new" /\ ~(RotamerAtoms(nchi) \subseteq names) =>
              (raised' = IncompleteError /\ q' = q /\ active' = active)]_vars
    /\ [][raised = IncompleteError => FALSE]_vars

\* a residue of occupancy 0.5 that lacks its last side-chain atom was refused
C3_Witness ==
    /\ raised = IncompleteError
    /\ q = 500
    /\ nchi = 2
    /\ "CD" \notin names

\* the positions of the weights of at least 0.002
AtLeastLimit(occ) == {i \in 1..Len(occ) : occ[i] >= 2}

\* the k-th smallest member of a set of positions
Nth(S, k) == CHOOSE i \in S : Cardinality({m \in S : m < i}) = k - 1

\* the step of _update_conformers keeps exactly the weights >= 0.002
PrunedExactly ==
    LET S == AtLeastLimit(occupancies)
    IN  /\ Len(occupancies) = Len(coor_set)
        /\ Len(coor_set') = Cardinality(S)
        /\ Len(occupancies') = Cardinality(S)
        /\ \A k \in 1..Cardinality(S) :
               /\ coor_set'[k] = coor_set[Nth(S, k)]
               /\ occupancies'[k] = occupancies[Nth(S, k)]

\* C4: after every solve the retained candidates are exactly those whose
\* solver weight is >= 0.002 (exactly 0.002 is kept), in their original order,
\* each still paired with the weight the solver gave it.
C4_PruneExact ==
    [][(pc \in {"qp_update", "miqp1_update", "miqp2_update"}) => PrunedExactly]_vars

\* after the QP a weight of exactly 0.002 is retained next to another one
C4_Witness ==
    /\ pc = "miqp1"
    /\ occupancies = <<2, 300>>
    /\ Len(coor_set) = 2
    /\ coor_set[1] # coor_set[2]

\* the weight list is parallel to the candidate list, with weights in [0, 1]
Parallel ==
    /\ Len(coor_set) = Len(occupancies)
    /\ \A i \in 1..Len(occupancies) : occupancies[i] >= 0 /\ occupancies[i] <= 1000

\* C5 as stated: after construction, after each chi expansion, after each
\* solve and when an error is raised the two lists have the same length and
\* every weight lies in [0, 1].
C5_ParallelEverywhere == pc # "new" => Parallel

\* C5, amended: after construction and after each solve the two lists have
\* the same length; every weight lies in [0, 1] at every point.  After a chi
\* expansion, and when the 'no conformers' error is raised, the weight list
\* still holds the weights of the previous solve and may differ in length.
C5_ParallelAfterSolve ==
    /\ (pc = "constructed" \/ InSolves \/ pc = "done") => Parallel
    /\ \A i \in 1..Len(occupancies) : occupancies[i] >= 0 /\ occupancies[i] <= 1000

\* two candidates survived the three solves of an iteration
C5_Witness ==
    /\ pc = "check_done"
    /\ Len(coor_set) = 2
    /\ Len(occupancies) = 2

\* C6: if the MIQP solver honours its constraints, a normal return for a
\* residue with nchi >= 1 under (cardinality = k, threshold = t) leaves at
\* most k conformers, each with a weight of at least t.
C6_CardinalityThreshold ==
    (pc = "done" /\ nchi >= 1 /\ options.cardinality # NoneVal
         /\ options.threshold # NoneVal) =>
        /\ Len(coor_set) <= options.cardinality
        /\ Len(occupancies) = Len(coor_set)
        /\ \A i \in 1..Len(occupancies) : occupancies[i] >= options.threshold

\* a fit with cardinality 2 returned two conformers
C6_Witness ==
    /\ pc = "done"
    /\ nchi >= 1
    /\ options.cardinality = 2
    /\ options.threshold = 300
    /\ Len(coor_set) = 2

\* C7 as stated: across the chi steps of one fit, the overlapping outer
\* iterations included, an atom that has become active is never inactive
\* afterwards.
C7_ActiveOnlyGrows ==
    [][chi_index > 0 => active \subseteq active']_vars

\* C7, amended: from one chi step to the next of the same outer iteration
\* the active mask only grows, and with dofs_per_iteration <= 2 it only grows
\* across the whole fit; with dofs_per_iteration >= 3 the first chi step of
\* the next outer iteration deactivates atoms that were active.
C7_ActiveGrowsInIteration ==
    [][(chi_index > 0 /\
           (options.dofs_per_iteration <= 2 \/ chi_next > start_chi_index)) =>
          active \subseteq active']_vars

\* the second outer iteration has sampled its first chi index again
C7_Witness ==
    /\ pc = "sample"
    /\ options.dofs_per_iteration = 2
    /\ iteration = 1
    /\ chi_index = 2
    /\ chi_next = 3
    /\ nchi >= 3
    /\ active = names \ ChiRotate(nchi)[3]

\* C8: the atoms named by options.exclude_atoms are inactive in every clash
\* check and every mask or density rendering of the fit, at every chi step.
C8_ExcludedAtomsInactive ==
    chi_index > 0 => (options.exclude_atoms \cap names) \cap active = {}

\* C9: for positive rotamer_neighborhood n and dofs_stepsize s every offset of
\* the sampling window lies in [-n, n], the window starts at -n and
\* consecutive offsets differ by exactly s.
C9_WindowInsideNeighborhood ==
    sampling_window # <<>> =>
        LET n == options.rotamer_neighborhood
            s == options.dofs_stepsize
        IN  /\ sampling_window[1] = -n
            /\ \A i \in 1..Len(sampling_window) :
                   -n <= sampling_window[i] /\ sampling_window[i] <= n
            /\ \A i \in 1..(Len(sampling_window) - 1) :
                   sampling_window[i + 1] - sampling_window[i] = s

\* C10: the receptor handed to the clash detector holds every atom of the
\* loaded structure outside the fitted residue (other chains, other residue
\* numbers, same number with another insertion code) and no atom of the
\* fitted residue.
C10_ReceptorIsRest ==
    cd.built => cd.receptor = {i \in 1..Len(structure) : i # target}

\* the pairs of an exclusion list
Pairs(exclude) == {exclude[k] : k \in 1..Len(exclude)}

\* the target is the residue at position i of segment seg of its conformer
AtPosition(seg, i) ==
    /\ seg \in {Segments(structure, structure[target].chain)[k] :
                   k \in 1..Len(Segments(structure, structure[target].chain))}
    /\ i \in 1..Len(seg)
    /\ seg[i] = target

\* C11: for a residue at position i of its segment the exclusion list of the
\* clash detector holds the pair (its N, C of the residue at i-1) iff i is not
\* the first position and the two atoms are closer than 2 A, the pair (its C,
\* N of the residue at i+1) iff i is not the last position and the two atoms
\* are closer than 2 A, and no other pair.
C11_ExcludePeptideBonds ==
    cd.built =>
        \A k \in 1..Len(Segments(structure, structure[target].chain)) :
            LET seg == Segments(structure, structure[target].chain)[k]
            IN  \A i \in 1..Len(seg) :
                    AtPosition(seg, i) =>
                        LET prev == {<<target, "N", seg[i - 1], "C">> : x \in
                                        {y \in {1} : i > 1 /\ structure[target].gap < 20}}
                            next == {<<target, "C", seg[i + 1], "N">> : x \in
                                        {y \in {1} : i < Len(seg)
                                                       /\ structure[seg[i + 1]].gap < 20}}
                        IN  /\ Pairs(cd.exclude) = prev \cup next
                            /\ Len(cd.exclude) = Cardinality(prev \cup next)

\* the fitted residue is in the middle of a segment: both pairs are excluded
C11_Witness ==
    /\ cd.built
    /\ \E k \in 1..Len(Segments(structure, structure[target].chain)) :
           LET seg == Segments(structure, structure[target].chain)[k]
           IN  \E i \in 2..(Len(seg) - 1) : seg[i] = target
    /\ Len(cd.exclude) = 2

\* the fitted residue is the first of its segment: only the bond to the next
\* residue is excluded
C11_WitnessFirst ==
    /\ cd.built
    /\ \E k \in 1..Len(Segments(structure, structure[target].chain)) :
           Segments(structure, structure[target].chain)[k][1] = target
    /\ Len(cd.exclude) = 1

\* the atom records of a structure
Records(data) == {data[k] : k \in 1..Len(data)}

\* reordered holds every atom record as often as struct_a and struct_b together
SameAtoms ==
    \A r \in Records(struct_a) \cup Records(struct_b) \cup Records(reordered) :
        Count(reordered, r) = Count(struct_a, r) + Count(struct_b, r)

\* C12: A.combine(B).reorder() holds exactly the multiset union of the atom
\* records of A and B, none dropped and none duplicated, for every mix of
\* empty and labelled altlocs in a residue group and for residues that share
\* a residue number but differ in insertion code.
C12_CombineReorderPreserves ==
    struct_a # <<>> =>
        /\ raised = NoError
        /\ pc = "reordered" => SameAtoms

\* two structures whose atoms all carry the empty altloc and no insertion
\* code come back complete
C12_PlainPreserved ==
    /\ pc = "reordered"
    /\ Len(struct_a) = 2 /\ Len(struct_b) = 2
    /\ SameAtoms

\* file n holds every atom of the residue once, at conformation n
ConformerFile(n) ==
    /\ {r.name : r \in Records(files[n])} = names
    /\ Len(files[n]) = Cardinality(names)
    /\ \A r \in Records(files[n]) : r.coor = coor_set[n] /\ r.q = occupancies[n]

\* the multiconformer residue holds every atom of conformer n, labelled with
\* the n-th uppercase letter where there is one
InMultiConformer(n) ==
    \A a \in names :
        \E k \in 1..Len(mc_residue) :
            /\ mc_residue[k].name = a
            /\ mc_residue[k].coor = coor_set[n]
            /\ n <= Len(ascii_uppercase) => mc_residue[k].altloc = ascii_uppercase[n]

\* C13: for every candidate set of k >= 1 conformers tofile writes one
\* conformer file per conformer, numbered 1..k in candidate order, and the
\* multiconformer residue holds the atoms of all k conformers, the n-th
\* conformer labelled with the n-th uppercase letter.
C13_ToFileAllConformers ==
    (pc = "written" /\ Len(coor_set) >= 1) =>
        /\ Len(files) = Len(coor_set)
        /\ \A n \in 1..Len(coor_set) : ConformerFile(n) /\ InMultiConformer(n)

\* three conformers were written and labelled A, B, C in candidate order
C13_Witness ==
    /\ pc = "written"
    /\ Len(coor_set) = 3
    /\ Len(files) = 3
    /\ Len(mc_residue) = 3 * Cardinality(names)
    /\ \A n \in 1..3 : ConformerFile(n) /\ InMultiConformer(n)
    /\ \A k \in 1..Len(mc_residue) : mc_residue[k].altloc \in {"A", "B", "C"}

\* C14: running the side-chain sampler leaves the shared rotamer-library
\* entry unchanged: after a fitter call the list of canonical rotamer
\* chi-tuples has the same length and contents as before the call.
C14_LibraryUnchanged == rotamers = Library(nchi)

\* the MIQP solve called with (options.cardinality, options.threshold)
MIQPWithOptions ==
    [kind |-> "MIQPSolver", cardinality |-> options.cardinality,
     threshold |-> options.threshold]

\* a QP solve
QPSolve == [kind |-> "QPSolver", cardinality |-> -1, threshold |-> -1]

\* the steps from the end of a chi expansion with candidates to the test for
\* the last chi index: solve, prune, solve, prune, solve, prune, with the
\* solvers first, second and third
SolvesInOrder(first, second, third) ==
    /\ (ExpansionOver /\ coor_set # <<>>) =>
           (pc' = "qp_update" /\ solver' = first)
    /\ pc = "qp_update" => (pc' = "miqp1" /\ PrunedExactly /\ solver' = solver)
    /\ pc = "miqp1" => (pc' = "miqp1_update" /\ solver' = second)
    /\ pc = "miqp1_update" => (pc' = "miqp2" /\ PrunedExactly /\ solver' = solver)
    /\ pc = "miqp2" => (pc' = "miqp2_update" /\ solver' = third)
    /\ pc = "miqp2_update" =>
           (pc' = "check_done" /\ PrunedExactly /\ solver' = solver)
    /\ pc = "check_done" =>
           (pc' \in {"done", "sample"} /\ solver' = solver
            /\ occupancies' = occupancies /\ coor_set' = coor_set)

\* C15 as stated: an outer iteration whose chi expansion leaves candidates
\* performs exactly three solves, a QP and then two MIQP solves with
\* (options.cardinality, options.threshold), each followed by pruning, for
\* every configuration of the two options.
C15_QPThenTwoMIQP ==
    [][SolvesInOrder(QPSolve, MIQPWithOptions, MIQPWithOptions)]_vars

\* C15, amended: such an iteration performs exactly three solves, each
\* followed by pruning; the first is a QP, and the second and third are MIQP
\* solves with (options.cardinality, options.threshold) unless both options
\* are None, in which case they are QP solves as well.
C15_ThreeSolves ==
    [][SolvesInOrder(QPSolve,
                     IF options.cardinality = -1 /\ options.threshold = -1
                     THEN QPSolve ELSE MIQPWithOptions,
                     IF options.cardinality = -1 /\ options.threshold = -1
                     THEN QPSolve ELSE MIQPWithOptions)]_vars

\* the second MIQP solve of the second outer iteration has run
C15_Witness ==
    /\ pc = "miqp2_update"
    /\ iteration = 1
    /\ solver = [kind |-> "MIQPSolver", cardinality |-> 2, threshold |-> 300]
    /\ Len(occupancies) = 2

\* the members of a sequence
Range(seq) == {seq[k] : k \in 1..Len(seq)}

\* the step is one pass of the loop over the chi indices
ChiStep == pc = "sample" /\ pc' = "sample" /\ chi_next' = chi_next + 1

\* rotamer r lies within rotamer_neighborhood of candidate p on every chi
\* before chi c
InNeighborhood(p, r, c) ==
    \A j \in 1..(c - 1) :
        /\ p[j] - r[j] <= options.rotamer_neighborhood
        /\ r[j] - p[j] <= options.rotamer_neighborhood

\* candidate p with chi c set to the value of rotamer r and then rotated by
\* delta
Rotated(p, r, c, delta) ==
    [p EXCEPT ![c] = ((((r[c] + 179) % 360) - 179 + delta + 179) % 360) - 179]

\* every conformation the chi step c rotates the residue into: each
\* candidate, set to each rotamer in its neighbourhood, rotated by each offset
SampledAt(c) ==
    UNION {{Rotated(p, r, c, sampling_window[d]) :
               r \in {y \in Range(rotamers) : InNeighborhood(p, y, c)},
               d \in 1..Len(sampling_window)} :
           p \in Range(coor_set)}

NearPairs(c) ==
    {pr \in (1..Len(coor_set)) \X (1..Len(rotamers)) :
        InNeighborhood(coor_set[pr[1]], rotamers[pr[2]], c)}

\* position a comes before position b in the loops over candidates and rotamers
Before(a, b) == a[1] < b[1] \/ (a[1] = b[1] /\ a[2] < b[2])

\* C17 as stated: at chi step c a rotamer of the augmented list is expanded
\* for a candidate iff it lies within rotamer_neighborhood of the candidate
\* on every chi before c; at c = 1 every rotamer is expanded for every
\* candidate.
C17_ExpandedIffNear ==
    [][ChiStep => expanded' = NearPairs(chi_next)]_vars

\* C17, amended: a rotamer is expanded for a candidate iff it lies within
\* rotamer_neighborhood of the candidate on every chi before c and setting
\* chi c to its value gives a conformation that no earlier candidate and
\* rotamer of the step gave; at c = 1 every rotamer passes the neighbourhood
\* test.
C17_ExpandedIffNearAndNew ==
    [][ChiStep =>
          /\ expanded' =
                 {b \in NearPairs(chi_next) :
                     \A a \in NearPairs(chi_next) :
                         Before(a, b) =>
                             Rotated(coor_set[a[1]], rotamers[a[2]], chi_next, 0)
                                 # Rotated(coor_set[b[1]], rotamers[b[2]], chi_next, 0)}
          /\ chi_next = 1 =>
                 NearPairs(chi_next) = (1..Len(coor_set)) \X (1..Len(rotamers))]_vars

\* at chi 2 the first rotamer was out of the neighbourhood of the candidate
\* and the second one was expanded
C17_Witness ==
    /\ pc = "sample"
    /\ chi_index = 2
    /\ <<1, 1>> \notin expanded
    /\ <<1, 2>> \in expanded
    /\ coor_set # <<>>

\* no two members of the sequence are the same conformation
NoDouble(seq) == \A a, b \in 1..Len(seq) : seq[a] = seq[b] => a = b

\* the accepted conformations of the window around base at chi step c, in the
\* order of the window
WindowOf(base, c, act) ==
    LET all == [d \in 1..Len(sampling_window) |->
                   Rotated(base, base, c, sampling_window[d])]
    IN  SelectSeq(all, LAMBDA x : ~CdClash(x, act) /\ Clashes(x, act) = 0)

\* chi c of each candidate set to the value of each rotamer in its
\* neighbourhood, in the order of the loops over candidates and rotamers
BasesInOrder(c) ==
    Concat([i \in 1..Len(coor_set) |->
               LET near == SelectSeq([r \in 1..Len(rotamers) |-> r],
                                     LAMBDA r : <<i, r>> \in NearPairs(c))
               IN  [k \in 1..Len(near) |->
                       Rotated(coor_set[i], rotamers[near[k]], c, 0)]])

\* C18 as stated: within one chi step no conformation is sampled twice: no
\* two coordinate sets appended to the new candidate list in the step are
\* within 0.01 A of each other, whatever candidate and rotamer they came from.
C18_NoDoubleAppended ==
    [][ChiStep => NoDouble(coor_set')]_vars

\* C18, amended: within one chi step no conformation is expanded twice: no
\* two of the conformations obtained by setting chi c to a rotamer value and
\* then sampled around are within 0.01 A of each other; the new candidate
\* list is the accepted window of each of them, in the order they were
\* expanded, so it depends only on the order of the candidates and of the
\* rotamers, and it may hold the same conformation more than once.
C18_NoDoubleExpanded ==
    [][ChiStep =>
          /\ NoDouble(sampled_rotamers')
          /\ sampled_rotamers' = FirstOccurrences(BasesInOrder(chi_next))
          /\ coor_set' = Concat([k \in 1..Len(sampled_rotamers') |->
                                    WindowOf(sampled_rotamers'[k], chi_next, active')])]_vars

\* two rotamers one degree apart were both expanded and their windows gave
\* the same conformation twice
C18_Witness ==
    /\ pc = "sample"
    /\ chi_index = 1
    /\ sampled_rotamers = << <<60>>, <<180>>, <<179>> >>
    /\ coor_set = << <<180>>, <<180>> >>

\* C19: a normal return for nchi >= 1 leaves at least one conformer, and
\* every solve of an iteration (the QP and both MIQP passes) is invoked on a
\* candidate list of at least one entry: pruning never hands an empty list
\* to the next solve or to the caller without an error.
C19_AtLeastOneConformer ==
    /\ (pc = "done" /\ nchi >= 1) => Len(coor_set) >= 1
    /\ pc \in {"miqp1", "miqp2"} => Len(coor_set) >= 1
    /\ pc \in {"qp_update", "miqp1_update", "miqp2_update"} => Len(occupancies) >= 1

\* the fitted residue is in no segment of its conformer
InNoSegment ==
    \A k \in 1..Len(Segments(structure, structure[target].chain)) :
        \A i \in 1..Len(Segments(structure, structure[target].chain)[k]) :
            Segments(structure, structure[target].chain)[k][i] # target

\* C20: for a complete rotamer residue that is in no segment of its conformer
\* (an isolated residue, or one whose neighbours are farther than 1.5 A)
\* constructing the fitter succeeds and the clash detector is set up with an
\* empty exclusion list.
C20_IsolatedResidueConstructs ==
    (pc \notin {"new", "loaded", "combined", "reordered"}
         /\ structure # <<>> /\ RotamerAtoms(nchi) \subseteq names /\ InNoSegment) =>
        /\ raised.type # "UnboundLocalError"
        /\ cd.built
        /\ cd.exclude = <<>>


\* candidate x is what chi step c makes of candidate p, rotamer r and the
\* offset at position d of the sampling window
GeneratedFrom(x, p, r, c, d) ==
    /\ InNeighborhood(p, r, c)
    /\ x = Rotated(p, r, c, sampling_window[d])

\* C21: every candidate that survives chi step c, generated from rotamer r
\* with a window offset, passes the neighbourhood test against r at the next
\* chi step, also when the rotated chi crosses the +/-180 boundary; so at
\* every chi step after the first each candidate has at least one rotamer
\* expanded for it.
C21_SurvivorsStayNear ==
    [][ChiStep =>
          /\ chi_next < nchi =>
                 \A k \in 1..Len(coor_set') :
                     \A p \in Range(coor_set), r \in Range(rotamers),
                        d \in 1..Len(sampling_window) :
                         GeneratedFrom(coor_set'[k], p, r, chi_next, d) =>
                             InNeighborhood(coor_set'[k], r, chi_next + 1)
          /\ chi_next >= 2 =>
                 \A i \in 1..Len(coor_set) : \E r \in 1..Len(rotamers) :
                     <<i, r>> \in expanded']_vars

====
